---- MODULE Spec2Model ----
(***************************************************************************)
(* State machine of the note page controller, src/app/[noteID]/page.tsx.   *)
(*                                                                         *)
(* The React state cells of NotePage are the variables; every event        *)
(* handler and every continuation of an awaited store or clipboard call is *)
(* one action.  A handler runs to its first await in one step (React       *)
(* flushes the state updates of a discrete event before the next event is  *)
(* dispatched); the code after the await runs in a later step, when the    *)
(* promise settles.                                                        *)
(*                                                                         *)
(* Controls are activated by pointer or by keyboard: the page installs no  *)
(* focus trap, so a dialog's backdrop does not stop the keyboard from      *)
(* activating the header buttons.  The only controls the code switches off *)
(* are the two buttons carrying disabled={loading}.                        *)
(***************************************************************************)
EXTENDS Integers, Sequences, FiniteSets, TLC

VARIABLES
    noteContent,    \* useState("")            page.tsx:18
    createdAt,      \* useState<string|null>   page.tsx:19, <<>> is null
    loading,        \* useState(true)          page.tsx:20
    isEditing,      \* useState(false)         page.tsx:21
    showDropdown,   \* useState(false)         page.tsx:22
    showModal,      \* useState(false)         page.tsx:23
    showCopyModal,  \* useState(false)         page.tsx:24
    mounted,        \* the page is still rendered by the router
    pending,        \* store calls awaited by the controller, not yet settled
    clipPending,    \* clipboard writes not yet settled
    store,          \* the document "notes/<noteID>": <<>> or <<doc>>
    ev,             \* the handler or continuation that ran in the last step
    alerted,        \* the alert() text of the last step, <<>> when none
    pushed,         \* the last step called router.push("/")
    loadResult,     \* how fetchNote ended: "pending", "found", "notfound", "error"
    deleted         \* some deleteDoc of this controller has succeeded

vars == <<noteContent, createdAt, loading, isEditing, showDropdown, showModal,
          showCopyModal, mounted, pending, clipPending, store, ev, alerted,
          pushed, loadResult, deleted>>

localState == <<noteContent, createdAt, loading, isEditing, showDropdown,
                showModal, showCopyModal>>

-----------------------------------------------------------------------------
(* Bounds *)

MaxLen == 1         \* longest text typed or stored
MaxInFlight == 2    \* cap on awaited store calls
MaxClip == 2        \* cap on unsettled clipboard writes

-----------------------------------------------------------------------------
(* Inputs *)

Alphabet == {"a", "b"}

RECURSIVE TextsOfLen(_)
TextsOfLen(n) ==
    IF n = 0 THEN {""}
    ELSE {t \o c : t \in TextsOfLen(n - 1), c \in Alphabet}

Texts == UNION {TextsOfLen(n) : n \in 0..MaxLen}

\* Firestore timestamps, as seconds since the epoch in the viewer's zone:
\* 2000-02-29 and 2024-11-04.
Timestamps == {951782400, 1730678400}

Opt(S) == {<<>>} \cup {<<x>> : x \in S}

\* document shape { content: string, createdAt?: timestamp }
Docs == [content : Opt(Texts), createdAt : Opt(Timestamps)]

-----------------------------------------------------------------------------
(* format(date, "yyyy-MM-dd") *)

Pad(n, width) ==
    LET s == ToString(n)
    IN  IF width = 4
        THEN (IF n < 10 THEN "000" ELSE IF n < 100 THEN "00"
              ELSE IF n < 1000 THEN "0" ELSE "") \o s
        ELSE (IF n < 10 THEN "0" ELSE "") \o s

\* a formatter that prints the month zero-based, as Date.getMonth() counts it
formatZeroBasedMonth(ts) ==
    LET z   == (ts \div 86400) + 719468
        era == z \div 146097
        doe == z - era * 146097
        yoe == (doe - doe \div 1460 + doe \div 36524 - doe \div 146096) \div 365
        doy == doe - (365 * yoe + yoe \div 4 - yoe \div 100)
        mp  == (5 * doy + 2) \div 153
        d   == doy - (153 * mp + 2) \div 5 + 1
        m   == IF mp < 10 THEN mp + 3 ELSE mp - 9
        y   == yoe + era * 400 + (IF m <= 2 THEN 1 ELSE 0)
    IN  Pad(y, 4) \o "-" \o Pad(m - 1, 2) \o "-" \o Pad(d, 2)

format(ts) ==
    LET z   == (ts \div 86400) + 719468
        era == z \div 146097
        doe == z - era * 146097
        yoe == (doe - doe \div 1460 + doe \div 36524 - doe \div 146096) \div 365
        doy == doe - (365 * yoe + yoe \div 4 - yoe \div 100)
        mp  == (5 * doy + 2) \div 153
        d   == doy - (153 * mp + 2) \div 5 + 1
        m   == IF mp < 10 THEN mp + 3 ELSE mp - 9
        y   == yoe + era * 400 + (IF m <= 2 THEN 1 ELSE 0)
    IN  Pad(y, 4) \o "-" \o Pad(m, 2) \o "-" \o Pad(d, 2)

-----------------------------------------------------------------------------
(* Helpers *)

Remove(s, i) == SubSeq(s, 1, i - 1) \o SubSeq(s, i + 1, Len(s))

NoAlert == <<>>

SaveNotice == <<"Failed to save the note.">>
CopyNotice == <<"Failed to copy URL.">>
DeleteNotice == <<"Failed to delete the note.">>

\* what a step that is not a continuation of a store call leaves alone
Quiet(e) ==
    /\ ev' = e
    /\ alerted' = NoAlert
    /\ pushed' = FALSE
    /\ UNCHANGED <<store, loadResult, deleted>>

-----------------------------------------------------------------------------
(* Construction: the first render and the mount effect that starts fetchNote *)

Init ==
    /\ noteContent = ""
    /\ createdAt = <<>>
    /\ loading = TRUE
    /\ isEditing = FALSE
    /\ showDropdown = FALSE
    /\ showModal = FALSE
    /\ showCopyModal = FALSE
    /\ mounted = TRUE
    /\ pending = <<[op |-> "fetch", content |-> ""]>>
    /\ clipPending = 0
    /\ store \in Opt(Docs)
    /\ ev = "mount"
    /\ alerted = NoAlert
    /\ pushed = FALSE
    /\ loadResult = "pending"
    /\ deleted = FALSE

-----------------------------------------------------------------------------
(* fetchNote, after the await of getDoc *)

fetchNoteFound(i) ==
    /\ pending[i].op = "fetch"
    /\ store # <<>>
    /\ LET noteData == store[1]
       IN  /\ noteContent' = IF noteData.content # <<>> /\ noteData.content[1] # ""
                             THEN noteData.content[1] ELSE ""
           /\ createdAt' = IF noteData.createdAt # <<>>
                           THEN <<format(noteData.createdAt[1])>>
                           ELSE <<"Unknown">>
    /\ loading' = FALSE
    /\ pending' = Remove(pending, i)
    /\ ev' = "fetchFound"
    /\ alerted' = NoAlert
    /\ pushed' = FALSE
    /\ loadResult' = "found"
    /\ UNCHANGED <<isEditing, showDropdown, showModal, showCopyModal, mounted,
                   clipPending, store, deleted>>

\* a missing document that is rendered as an empty note instead of leaving
fetchNoteMissingStays(i) ==
    /\ pending[i].op = "fetch"
    /\ store = <<>>
    /\ createdAt' = <<"Unknown">>
    /\ loading' = FALSE
    /\ pending' = Remove(pending, i)
    /\ ev' = "fetchMissing"
    /\ alerted' = NoAlert
    /\ pushed' = FALSE
    /\ loadResult' = "notfound"
    /\ UNCHANGED <<noteContent, isEditing, showDropdown, showModal,
                   showCopyModal, mounted, clipPending, store, deleted>>

fetchNoteMissing(i) ==
    /\ pending[i].op = "fetch"
    /\ store = <<>>
    /\ loading' = FALSE
    /\ pending' = Remove(pending, i)
    /\ ev' = "fetchMissing"
    /\ alerted' = NoAlert
    /\ pushed' = TRUE
    /\ loadResult' = "notfound"
    /\ UNCHANGED <<noteContent, createdAt, isEditing, showDropdown, showModal,
                   showCopyModal, mounted, clipPending, store, deleted>>

\* a fetch error whose handler never clears the loading flag
fetchNoteErrorKeepsLoading(i) ==
    /\ pending[i].op = "fetch"
    /\ pending' = Remove(pending, i)
    /\ ev' = "fetchError"
    /\ alerted' = NoAlert
    /\ pushed' = TRUE
    /\ loadResult' = "error"
    /\ UNCHANGED <<noteContent, createdAt, loading, isEditing, showDropdown,
                   showModal, showCopyModal, mounted, clipPending, store,
                   deleted>>

fetchNoteError(i) ==
    /\ pending[i].op = "fetch"
    /\ loading' = FALSE
    /\ pending' = Remove(pending, i)
    /\ ev' = "fetchError"
    /\ alerted' = NoAlert
    /\ pushed' = TRUE
    /\ loadResult' = "error"
    /\ UNCHANGED <<noteContent, createdAt, isEditing, showDropdown, showModal,
                   showCopyModal, mounted, clipPending, store, deleted>>

-----------------------------------------------------------------------------
(* handleEditOrSave: the Edit/Save button, disabled={loading} *)

\* the Edit/Save button without its disabled attribute
EditSaveEnabledNotDisabled == mounted

EditSaveEnabled == mounted /\ ~loading

\* an Edit that starts from an empty draft
handleEditOrSaveClearsDraft ==
    /\ EditSaveEnabled
    /\ \/ /\ isEditing
          /\ Len(pending) < MaxInFlight
          /\ loading' = TRUE
          /\ pending' = Append(pending, [op |-> "update", content |-> noteContent])
          /\ Quiet("saveStart")
          /\ UNCHANGED <<noteContent, createdAt, isEditing, showDropdown,
                         showModal, showCopyModal, mounted, clipPending>>
       \/ /\ ~isEditing
          /\ isEditing' = TRUE
          /\ noteContent' = ""
          /\ Quiet("beginEdit")
          /\ UNCHANGED <<createdAt, loading, showDropdown,
                         showModal, showCopyModal, mounted, pending, clipPending>>

handleEditOrSave ==
    /\ EditSaveEnabled
    /\ \/ /\ isEditing
          /\ Len(pending) < MaxInFlight
          /\ loading' = TRUE
          /\ pending' = Append(pending, [op |-> "update", content |-> noteContent])
          /\ Quiet("saveStart")
          /\ UNCHANGED <<noteContent, createdAt, isEditing, showDropdown,
                         showModal, showCopyModal, mounted, clipPending>>
       \/ /\ ~isEditing
          /\ isEditing' = TRUE
          /\ Quiet("beginEdit")
          /\ UNCHANGED <<noteContent, createdAt, loading, showDropdown,
                         showModal, showCopyModal, mounted, pending, clipPending>>

\* after the await of updateDoc: the write succeeded (updateDoc needs the document)
saveResolved(i) ==
    /\ pending[i].op = "update"
    /\ store # <<>>
    /\ store' = <<[store[1] EXCEPT !.content = <<pending[i].content>>]>>
    /\ isEditing' = FALSE
    /\ loading' = FALSE
    /\ pending' = Remove(pending, i)
    /\ ev' = "saveOk"
    /\ alerted' = NoAlert
    /\ pushed' = FALSE
    /\ UNCHANGED <<noteContent, createdAt, showDropdown, showModal,
                   showCopyModal, mounted, clipPending, loadResult, deleted>>

\* a rejected write that also leaves edit mode
saveRejectedLeavesEdit(i) ==
    /\ pending[i].op = "update"
    /\ isEditing' = FALSE
    /\ loading' = FALSE
    /\ pending' = Remove(pending, i)
    /\ ev' = "saveFail"
    /\ alerted' = SaveNotice
    /\ pushed' = FALSE
    /\ UNCHANGED <<noteContent, createdAt, showDropdown, showModal,
                   showCopyModal, mounted, clipPending, store, loadResult,
                   deleted>>

\* after the await of updateDoc: the write was rejected
saveRejected(i) ==
    /\ pending[i].op = "update"
    /\ loading' = FALSE
    /\ pending' = Remove(pending, i)
    /\ ev' = "saveFail"
    /\ alerted' = SaveNotice
    /\ pushed' = FALSE
    /\ UNCHANGED <<noteContent, createdAt, isEditing, showDropdown, showModal,
                   showCopyModal, mounted, clipPending, store, loadResult,
                   deleted>>

\* the textarea, rendered while isEditing
textareaOnChange(t) ==
    /\ mounted
    /\ isEditing
    /\ t # noteContent
    /\ noteContent' = t
    /\ Quiet("input")
    /\ UNCHANGED <<createdAt, loading, isEditing, showDropdown, showModal,
                   showCopyModal, mounted, pending, clipPending>>

-----------------------------------------------------------------------------
(* Options menu *)

toggleDropdown ==
    /\ mounted
    /\ showDropdown' = ~showDropdown
    /\ Quiet("toggle")
    /\ UNCHANGED <<noteContent, createdAt, loading, isEditing, showModal,
                   showCopyModal, mounted, pending, clipPending>>

\* pointer targets of a mousedown: the menu surface, its trigger, anything else
Targets == {"menu", "trigger", "elsewhere"}

\* dropdownRef is attached to the menu <div>, which is rendered iff showDropdown;
\* buttonRef is attached to the trigger, which is always rendered
dropdownRefCurrent == showDropdown
buttonRefCurrent == mounted

\* an outside test that forgets the trigger button
IsOutsideIgnoresTrigger(target) ==
    /\ dropdownRefCurrent
    /\ target # "menu"

IsOutside(target) ==
    /\ dropdownRefCurrent
    /\ target # "menu"
    /\ buttonRefCurrent
    /\ target # "trigger"

\* the mousedown listener, registered while showDropdown
handleClickOutside(target) ==
    /\ mounted
    /\ showDropdown
    /\ showDropdown' = IF IsOutside(target) THEN FALSE ELSE showDropdown
    /\ Quiet("mousedown:" \o target)
    /\ UNCHANGED <<noteContent, createdAt, loading, isEditing, showModal,
                   showCopyModal, mounted, pending, clipPending>>

\* a "Copy URL" item that leaves the menu open
handleCopyURLKeepsMenu ==
    /\ mounted
    /\ showDropdown
    /\ clipPending < MaxClip
    /\ clipPending' = clipPending + 1
    /\ Quiet("copyStart")
    /\ UNCHANGED <<noteContent, createdAt, loading, isEditing, showDropdown,
                   showModal, showCopyModal, mounted, pending>>

\* the "Copy URL" menu item
handleCopyURL ==
    /\ mounted
    /\ showDropdown
    /\ clipPending < MaxClip
    /\ clipPending' = clipPending + 1
    /\ showDropdown' = FALSE
    /\ Quiet("copyStart")
    /\ UNCHANGED <<noteContent, createdAt, loading, isEditing, showModal,
                   showCopyModal, mounted, pending>>

\* writeText fulfilled
copyResolved ==
    /\ clipPending > 0
    /\ clipPending' = clipPending - 1
    /\ showCopyModal' = TRUE
    /\ Quiet("copyOk")
    /\ UNCHANGED <<noteContent, createdAt, loading, isEditing, showDropdown,
                   showModal, mounted, pending>>

\* writeText rejected
copyRejected ==
    /\ clipPending > 0
    /\ clipPending' = clipPending - 1
    /\ ev' = "copyFail"
    /\ alerted' = CopyNotice
    /\ pushed' = FALSE
    /\ UNCHANGED <<noteContent, createdAt, loading, isEditing, showDropdown,
                   showModal, showCopyModal, mounted, pending, store,
                   loadResult, deleted>>

\* the "OK" button of the copy dialog
dismissCopyModal ==
    /\ mounted
    /\ showCopyModal
    /\ showCopyModal' = FALSE
    /\ Quiet("dismissCopy")
    /\ UNCHANGED <<noteContent, createdAt, loading, isEditing, showDropdown,
                   showModal, mounted, pending, clipPending>>

-----------------------------------------------------------------------------
(* Delete *)

\* a "Delete" menu item wired straight to the store call
requestDeleteUnconfirmed ==
    /\ mounted
    /\ showDropdown
    /\ Len(pending) < MaxInFlight
    /\ loading' = TRUE
    /\ pending' = Append(pending, [op |-> "delete", content |-> ""])
    /\ showDropdown' = FALSE
    /\ Quiet("requestDelete")
    /\ UNCHANGED <<noteContent, createdAt, isEditing, showModal, showCopyModal,
                   mounted, clipPending>>

\* the "Delete" menu item
requestDelete ==
    /\ mounted
    /\ showDropdown
    /\ showModal' = TRUE
    /\ showDropdown' = FALSE
    /\ Quiet("requestDelete")
    /\ UNCHANGED <<noteContent, createdAt, loading, isEditing, showCopyModal,
                   mounted, pending, clipPending>>

\* the "Cancel" button of the delete dialog
cancelDelete ==
    /\ mounted
    /\ showModal
    /\ showModal' = FALSE
    /\ Quiet("cancelDelete")
    /\ UNCHANGED <<noteContent, createdAt, loading, isEditing, showDropdown,
                   showCopyModal, mounted, pending, clipPending>>

\* the confirm button without its disabled attribute
ConfirmEnabledNotDisabled == mounted /\ showModal

\* the "Delete" button of the delete dialog, disabled={loading}
ConfirmEnabled == mounted /\ showModal /\ ~loading

handleDelete ==
    /\ ConfirmEnabled
    /\ Len(pending) < MaxInFlight
    /\ loading' = TRUE
    /\ pending' = Append(pending, [op |-> "delete", content |-> ""])
    /\ Quiet("confirmDelete")
    /\ UNCHANGED <<noteContent, createdAt, isEditing, showDropdown, showModal,
                   showCopyModal, mounted, clipPending>>

\* a successful delete that stays on the page
deleteResolvedStays(i) ==
    /\ pending[i].op = "delete"
    /\ store' = <<>>
    /\ loading' = FALSE
    /\ showModal' = FALSE
    /\ pending' = Remove(pending, i)
    /\ ev' = "deleteOk"
    /\ alerted' = NoAlert
    /\ pushed' = FALSE
    /\ deleted' = TRUE
    /\ UNCHANGED <<noteContent, createdAt, isEditing, showDropdown,
                   showCopyModal, mounted, clipPending, loadResult>>

\* after the await of deleteDoc: the document is gone
deleteResolved(i) ==
    /\ pending[i].op = "delete"
    /\ store' = <<>>
    /\ loading' = FALSE
    /\ showModal' = FALSE
    /\ pending' = Remove(pending, i)
    /\ ev' = "deleteOk"
    /\ alerted' = NoAlert
    /\ pushed' = TRUE
    /\ deleted' = TRUE
    /\ UNCHANGED <<noteContent, createdAt, isEditing, showDropdown,
                   showCopyModal, mounted, clipPending, loadResult>>

\* a rejected delete that leaves the dialog as it is
deleteRejectedKeepsDialog(i) ==
    /\ pending[i].op = "delete"
    /\ loading' = FALSE
    /\ pending' = Remove(pending, i)
    /\ ev' = "deleteFail"
    /\ alerted' = DeleteNotice
    /\ pushed' = FALSE
    /\ UNCHANGED <<noteContent, createdAt, isEditing, showDropdown, showModal,
                   showCopyModal, mounted, clipPending, store, loadResult,
                   deleted>>

\* a rejected delete that also resets the page to view mode
deleteRejectedResets(i) ==
    /\ pending[i].op = "delete"
    /\ isEditing' = FALSE
    /\ loading' = FALSE
    /\ showModal' = FALSE
    /\ pending' = Remove(pending, i)
    /\ ev' = "deleteFail"
    /\ alerted' = DeleteNotice
    /\ pushed' = FALSE
    /\ UNCHANGED <<noteContent, createdAt, showDropdown, showCopyModal,
                   mounted, clipPending, store, loadResult, deleted>>

\* after the await of deleteDoc: the call was rejected
deleteRejected(i) ==
    /\ pending[i].op = "delete"
    /\ loading' = FALSE
    /\ showModal' = FALSE
    /\ pending' = Remove(pending, i)
    /\ ev' = "deleteFail"
    /\ alerted' = DeleteNotice
    /\ pushed' = FALSE
    /\ UNCHANGED <<noteContent, createdAt, isEditing, showDropdown,
                   showCopyModal, mounted, clipPending, store, loadResult,
                   deleted>>

-----------------------------------------------------------------------------
(* The router takes the page down: after router.push("/"), or because the   *)
(* user left through the browser.  No handler of the page runs afterwards;  *)
(* the continuations of awaited calls still do.                             *)

unmount ==
    /\ mounted
    /\ mounted' = FALSE
    /\ Quiet("unmount")
    /\ UNCHANGED <<noteContent, createdAt, loading, isEditing, showDropdown,
                   showModal, showCopyModal, pending, clipPending>>

-----------------------------------------------------------------------------

Next ==
    \/ \E i \in 1..Len(pending) : fetchNoteFound(i)
    \/ \E i \in 1..Len(pending) : fetchNoteMissing(i)
    \/ \E i \in 1..Len(pending) : fetchNoteError(i)
    \/ handleEditOrSave
    \/ \E i \in 1..Len(pending) : saveResolved(i)
    \/ \E i \in 1..Len(pending) : saveRejected(i)
    \/ \E t \in Texts : textareaOnChange(t)
    \/ toggleDropdown
    \/ \E target \in Targets : handleClickOutside(target)
    \/ handleCopyURL
    \/ copyResolved
    \/ copyRejected
    \/ dismissCopyModal
    \/ requestDelete
    \/ cancelDelete
    \/ handleDelete
    \/ \E i \in 1..Len(pending) : deleteResolved(i)
    \/ \E i \in 1..Len(pending) : deleteRejected(i)
    \/ unmount

Spec == Init /\ [][Next]_vars

\* Every store call returns: some continuation of a pending getDoc, updateDoc
\* or deleteDoc eventually runs.  The store starts empty or with one document,
\* and the text typed is "" or "a": progress does not depend on the text.
Settle ==
    \E i \in 1..Len(pending) :
        \/ fetchNoteFound(i) \/ fetchNoteMissing(i) \/ fetchNoteError(i)
        \/ saveResolved(i) \/ saveRejected(i)
        \/ deleteResolved(i) \/ deleteRejected(i)

FairInit ==
    /\ Init
    /\ store \in {<<>>, <<[content |-> <<"a">>, createdAt |-> <<>>]>>}

FairTexts == {"", "a"}

FairNext == Next /\ noteContent' \in FairTexts

FairSpec == FairInit /\ [][FairNext]_vars /\ WF_vars(Settle)

TypeOK ==
    /\ noteContent \in Texts
    /\ createdAt \in Opt({"Unknown"} \cup {format(t) : t \in Timestamps})
    /\ loading \in BOOLEAN /\ isEditing \in BOOLEAN
    /\ showDropdown \in BOOLEAN /\ showModal \in BOOLEAN
    /\ showCopyModal \in BOOLEAN /\ mounted \in BOOLEAN
    /\ Len(pending) <= MaxInFlight
    /\ clipPending \in 0..MaxClip
    /\ store \in Opt(Docs)
    /\ pushed \in BOOLEAN /\ deleted \in BOOLEAN

-----------------------------------------------------------------------------
(* Vocabulary of the properties *)

OverlaysVisible ==
    {o \in {"OptionsMenu", "DeleteConfirm", "CopyConfirm"} :
        /\ mounted
        /\ \/ o = "OptionsMenu" /\ showDropdown
           \/ o = "DeleteConfirm" /\ showModal
           \/ o = "CopyConfirm" /\ showCopyModal}

Pending(kind) == \E i \in 1..Len(pending) : pending[i].op = kind

\* this step started a store call of the given kind
Issued(kind) ==
    /\ Len(pending') = Len(pending) + 1
    /\ pending'[Len(pending')].op = kind

IssuedAny == Len(pending') > Len(pending)

-----------------------------------------------------------------------------
(* Properties *)

\* C1: in every reachable state at most one of the options menu, the delete
\* dialog and the copy dialog is visible.
C1_AtMostOneOverlay == Cardinality(OverlaysVisible) <= 1

\* C2: at most one store call (fetch, update or delete) of the controller is
\* in flight at any instant.
C2_SingleFlight == Len(pending) <= 1

C2_Witness ==
    /\ Len(pending) = 1
    /\ pending[1].op = "delete"
    /\ loadResult = "found"
    /\ showModal
    /\ isEditing

\* C3: when a save completes successfully the page is in view mode (not
\* editing, not loading) and the text it shows is the text that save wrote to
\* the store.
C3_SavedTextIsShown ==
    [][ev' = "saveOk" =>
         /\ ~isEditing'
         /\ ~loading'
         /\ store' # <<>>
         /\ store'[1].content = <<noteContent'>>]_vars

\* C4: when a save is rejected the page stays in edit mode with loading
\* cleared, the rejection leaves the draft text as it was, and a failure
\* notice is raised.
C4_SaveFailureKeepsDraft ==
    [][ev' = "saveFail" =>
         /\ isEditing'
         /\ ~loading'
         /\ noteContent' = noteContent
         /\ alerted' = SaveNotice]_vars

C4_Witness ==
    /\ ev = "saveFail"
    /\ isEditing
    /\ ~loading
    /\ noteContent # ""
    /\ alerted = SaveNotice

\* C5: once a delete has succeeded the controller starts no further store
\* call.
C5_NoCallAfterDelete == [][deleted => ~IssuedAny]_vars

\* C6: when the load finds no document, or the fetch fails, the load ends by
\* requesting navigation to the default location, the content is still the
\* initial empty string, and no failure notice is raised.
C6_LoadFailureNavigates ==
    [][(/\ loadResult = "pending"
        /\ loadResult' # "pending"
        /\ (store = <<>> \/ loadResult' = "error")) =>
         /\ pushed'
         /\ noteContent' = ""
         /\ createdAt' = <<>>
         /\ alerted' = NoAlert]_vars

C6_Witness ==
    /\ ev = "fetchMissing"
    /\ store = <<>>
    /\ pushed
    /\ noteContent = ""
    /\ ~loading

\* C7: after the page has been unmounted, no continuation of a load, save or
\* delete changes a local state variable.
C7_NoUpdateAfterUnmount == [][~mounted => UNCHANGED localState]_vars

\* C8: deleteDoc is started only by the confirm button pressed while the
\* delete dialog is visible, the dialog becomes visible only through the
\* "Delete" menu item, and neither that item nor Cancel starts a delete.
C8_DeleteNeedsConfirmation ==
    [][/\ Issued("delete") => (ev' = "confirmDelete" /\ showModal /\ mounted)
       /\ (~showModal /\ showModal') => ev' = "requestDelete"
       /\ ev' \in {"requestDelete", "cancelDelete"} => ~IssuedAny]_vars

C8_Witness ==
    /\ ev = "confirmDelete"
    /\ Pending("delete")
    /\ showModal
    /\ loading

\* C9: while a delete is in flight the edit mode does not change, and when the
\* delete is rejected the page keeps its edit mode and draft, loading is
\* cleared, the delete dialog is closed, a failure notice is raised and no
\* navigation is requested.
C9_DeleteFailureReverts ==
    [][/\ Pending("delete") => isEditing' = isEditing
       /\ ev' = "deleteFail" =>
            /\ ~loading'
            /\ ~showModal'
            /\ noteContent' = noteContent
            /\ alerted' = DeleteNotice
            /\ ~pushed']_vars

C9_Witness ==
    /\ ev = "deleteFail"
    /\ isEditing
    /\ noteContent # ""
    /\ ~loading
    /\ ~showModal
    /\ alerted = DeleteNotice

\* C10: whenever a store call is pending the loading flag is set, and while it
\* is set the Edit/Save handler does not run: no step enters edit mode or
\* starts a save.
C10_EditSaveInertWhileBusy ==
    /\ [](pending # <<>> => loading)
    /\ [][loading => /\ ev' \notin {"beginEdit", "saveStart"}
                     /\ isEditing' = isEditing \/ ev' = "saveOk"
                     /\ ~Issued("update")]_vars

C10_Witness ==
    /\ mounted
    /\ loading
    /\ isEditing
    /\ Pending("update")

\* C11: user input changes the content text only in Editing, that is with
\* isEditing set and no store call pending.
C11_InputOnlyWhileEditing ==
    [][ev' = "input" => (isEditing /\ ~loading /\ pending = <<>>)]_vars

\* C12: router.push("/") is called exactly by the steps that end the load
\* with no document or with a fetch error and by the steps that complete a
\* delete successfully; never by a save, a rejected delete or the clipboard.
C12_NavigationCases ==
    [][pushed' <=>
         \/ loadResult = "pending" /\ loadResult' \in {"notfound", "error"}
         \/ ev' = "deleteOk"]_vars

C12_Witness ==
    /\ ev = "deleteOk"
    /\ pushed
    /\ deleted
    /\ loadResult = "found"

\* the calendar dates of the timestamps, written out
ExpectedDate(ts) ==
    CASE ts = 951782400 -> "2000-02-29"
      [] ts = 1730678400 -> "2024-11-04"

\* C13: a load that finds a document ends in Viewing (not loading, not
\* editing) with the document's content and its creation date as
\* yyyy-MM-dd, or "Unknown" when the document has no createdAt.
C13_LoadPopulatesView ==
    [][(loadResult = "pending" /\ loadResult' = "found") =>
         /\ store # <<>>
         /\ ~loading'
         /\ ~isEditing'
         /\ store[1].content # <<>> => noteContent' = store[1].content[1]
         /\ store[1].createdAt # <<>> =>
                createdAt' = <<ExpectedDate(store[1].createdAt[1])>>
         /\ store[1].createdAt = <<>> => createdAt' = <<"Unknown">>]_vars

C13_Witness ==
    /\ ev = "fetchFound"
    /\ ~loading
    /\ ~isEditing
    /\ noteContent = "a"
    /\ createdAt = <<"2000-02-29">>

\* C14: the "Copy URL" handler closes the options menu before the clipboard
\* outcome is known and touches no other overlay flag; a fulfilled write sets
\* the copy dialog flag; a rejected write raises the copy notice and changes
\* no overlay flag.
C14_CopyShareLink ==
    [][/\ ev' = "copyStart" =>
            /\ showDropdown
            /\ ~showDropdown'
            /\ UNCHANGED <<showModal, showCopyModal>>
       /\ ev' = "copyOk" =>
            /\ showCopyModal'
            /\ UNCHANGED <<showDropdown, showModal>>
       /\ ev' = "copyFail" =>
            /\ alerted' = CopyNotice
            /\ UNCHANGED <<showDropdown, showModal, showCopyModal>>]_vars

C14_Witness ==
    /\ ev = "copyFail"
    /\ alerted = CopyNotice
    /\ ~showDropdown
    /\ ~showCopyModal
    /\ mounted

\* C15: the mousedown listener runs only while the options menu is open; a
\* mousedown outside the menu surface and the trigger closes the menu, one on
\* the menu surface or on the trigger leaves it open.
C15_OutsideClickCloses ==
    [][\A target \in Targets :
         ev' = "mousedown:" \o target =>
            /\ showDropdown
            /\ showDropdown' <=> target \in {"menu", "trigger"}
            /\ UNCHANGED <<showModal, showCopyModal>>]_vars

C15_Witness ==
    /\ ev = "mousedown:elsewhere"
    /\ ~showDropdown
    /\ mounted

\* C16: Cancel clears the delete dialog flag, and so does the completion of a
\* confirmed delete, successful or not, whatever the dialog flag was while the
\* delete was pending.
C16_DeleteDialogCloses ==
    [][/\ ev' = "cancelDelete" => ~showModal'
       /\ ev' \in {"deleteOk", "deleteFail"} => (Pending("delete") /\ ~showModal')]_vars

\* the dialog reopened through the menu while the confirmed delete is pending
C16_Witness ==
    /\ Pending("delete")
    /\ ev = "requestDelete"
    /\ showModal
    /\ mounted

\* C17: Edit pressed in Viewing sets isEditing, starts no store call and
\* leaves the content text, the loading flag and every overlay flag as they
\* were, so the draft is the text that was being viewed.
C17_BeginEditFrame ==
    [][ev' = "beginEdit" =>
         /\ ~isEditing /\ ~loading
         /\ isEditing'
         /\ pending' = pending
         /\ UNCHANGED <<noteContent, createdAt, loading, showDropdown,
                        showModal, showCopyModal, store>>]_vars

C17_Witness ==
    /\ ev = "beginEdit"
    /\ isEditing
    /\ noteContent = "a"
    /\ pending = <<>>

\* C18: when every store call returns, every pending load, save and delete
\* completes and a set loading flag is cleared again, so the Edit/Save
\* button does not stay disabled forever.
C18_LoadingEventuallyClears ==
    /\ (pending # <<>>) ~> (pending = <<>>)
    /\ loading ~> ~loading

C18_Witness ==
    /\ ev = "saveFail"
    /\ ~loading
    /\ pending = <<>>
    /\ mounted

\* C19: after the load has ended with no document or with a fetch error, the
\* controller starts no update and no delete.
C19_NoWriteAfterFailedLoad ==
    [][(loadResult = "notfound" \/ loadResult = "error") =>
         ~(Issued("update") \/ Issued("delete"))]_vars

====
